---- MODULE Spec2Model ----
(***************************************************************************)
(* Model of Auth0Web (src/src/index.ts): the in-memory token cache keyed   *)
(* by audience, the profile / identity token, the subscriber registry and  *)
(* the callback-to-promise adaptation of the provider SDK calls.           *)
(*                                                                         *)
(* The JavaScript event loop is modelled explicitly: every SDK callback    *)
(* and every public call is one macrotask (one action); the continuation   *)
(* of an `await` is a microtask, and the microtask queue drains before the *)
(* next macrotask starts.  Subscriber callbacks record that they were      *)
(* invoked and may throw; they do not call back into the manager.          *)
(***************************************************************************)
EXTENDS Integers, Sequences, FiniteSets, Bags, TLC

(* ---------------------------- bounds ----------------------------------- *)
MaxCalls == 2          \* parseHash / checkSession calls in flight at once
MaxClock == 1          \* Date.now() ranges over 0..MaxClock

(* ---------------------------- values ----------------------------------- *)
Undefined == "undefined"           \* JS undefined (absent value, omitted argument)
NoError == "null"                  \* err === null in an SDK callback
DEFAULT_KEY == "default"

\* audience arguments a caller may pass: omitted, the literal text of
\* DEFAULT_KEY, and ordinary audience identifiers
Audiences == {Undefined, "default", "urn:api"}
\* provider error values, named by their discriminator field error.error
Errors == {"login_required", "invalid_token", "unauthorized"}
\* results the provider may deliver: {accessToken, idToken, expiresIn}; a
\* token with expiresIn 0 is out of date as soon as the clock advances
AuthResults ==
  { [accessToken |-> "tok1", idToken |-> "id1", expiresIn |-> 0],
    [accessToken |-> "tok2", idToken |-> "id2", expiresIn |-> 2] }
NoResult == [accessToken |-> Undefined, idToken |-> Undefined, expiresIn |-> 0]
\* the profile the provider's userInfo endpoint returns for an access token
UserInfoProfile(accessToken) ==
  IF accessToken = "tok1" THEN "profile1" ELSE "profile2"
\* subscriber callbacks; ThrowingCallbacks raise an exception when invoked
Callbacks == {"cbA", "cbThrow"}
ThrowingCallbacks == {"cbThrow"}

VARIABLES
  accessTokens,   \* _accessTokens : key -> [accessToken, expiresAt]
  idToken,        \* _idToken
  profile,        \* _profile
  subscribers,    \* _subscribers : Date.now() key -> callback
  now,            \* the clock behind Date.now()
  locationHash,   \* window.location.hash
  calls,          \* bag of the parseHash / checkSession calls awaiting an SDK callback
  microtasks,     \* queue of the calls whose await continuation is pending
  last            \* the step just taken and what it did

vars == <<accessTokens, idToken, profile, subscribers, now, locationHash,
          calls, microtasks, last>>

(* ---------------------------- helpers ---------------------------------- *)
EmptyMap == [k \in {} |-> Undefined]
Put(f, k, v) == [x \in (DOMAIN f) \cup {k} |-> IF x = k THEN v ELSE f[x]]
Remove(f, k) == [x \in (DOMAIN f) \ {k} |-> f[x]]
\* JS truthiness of an optional string argument
Truthy(s) == s # Undefined /\ s # ""
\* audience || DEFAULT_KEY
KeyOf(audience) == IF Truthy(audience) THEN audience ELSE DEFAULT_KEY

(* ---------------------------- getters ---------------------------------- *)
getProfile == profile

getAccessToken(audience) ==
  IF KeyOf(audience) \notin DOMAIN accessTokens THEN Undefined
  ELSE accessTokens[KeyOf(audience)].accessToken

\* isAuthenticated as it would be if it compared expiresAt with the clock
isAuthenticated_expiry(audience) ==
  /\ KeyOf(audience) \in DOMAIN accessTokens
  /\ accessTokens[KeyOf(audience)].expiresAt > now

isAuthenticated(audience) == KeyOf(audience) \in DOMAIN accessTokens

(* ---------------------------- private operations ----------------------- *)
\* addAccessToken as it would be without line 131: the audience slot is never written
addAccessToken_noAudience(tokens, accessToken, expiresAt, audience) ==
  IF DEFAULT_KEY \notin DOMAIN tokens
  THEN Put(tokens, DEFAULT_KEY, [accessToken |-> accessToken, expiresAt |-> expiresAt])
  ELSE tokens

\* addAccessToken as it would be if the default slot were written on every call
addAccessToken_overwriteDefault(tokens, accessToken, expiresAt, audience) ==
  LET accessTokenDetails == [accessToken |-> accessToken, expiresAt |-> expiresAt]
      seeded == Put(tokens, DEFAULT_KEY, accessTokenDetails)
  IN IF Truthy(audience) THEN Put(seeded, audience, accessTokenDetails) ELSE seeded

\* addAccessToken as it would be without line 129: the default slot is never seeded
addAccessToken_noSeed(tokens, accessToken, expiresAt, audience) ==
  IF Truthy(audience)
  THEN Put(tokens, audience, [accessToken |-> accessToken, expiresAt |-> expiresAt])
  ELSE tokens

addAccessToken(tokens, accessToken, expiresAt, audience) ==
  LET accessTokenDetails == [accessToken |-> accessToken, expiresAt |-> expiresAt]
      seeded == IF DEFAULT_KEY \notin DOMAIN tokens
                THEN Put(tokens, DEFAULT_KEY, accessTokenDetails)
                ELSE tokens
  IN IF Truthy(audience) THEN Put(seeded, audience, accessTokenDetails) ELSE seeded

\* storeTokens, defined below, as it would be if loadProfile cached the token
\* before looking at the error of the userInfo answer
storeTokens_beforeErrorCheck(tokens, call, err, clock) ==
  LET accessTokenDetails == [accessToken |-> call.authResult.accessToken,
                             expiresAt |-> call.authResult.expiresIn * 1000 + clock]
      seeded == IF DEFAULT_KEY \notin DOMAIN tokens
                THEN Put(tokens, DEFAULT_KEY, accessTokenDetails)
                ELSE tokens
  IN IF Truthy(call.audience) THEN Put(seeded, call.audience, accessTokenDetails)
     ELSE seeded

\* ExpiresAt as it would be with the seconds not converted to milliseconds
ExpiresAt_seconds(authResult, clock) == authResult.expiresIn + clock

\* expiresAt = authResult.expiresIn * 1000 + Date.now()
ExpiresAt(authResult, clock) == authResult.expiresIn * 1000 + clock

\* the token cache after the userInfo callback of loadProfile: untouched when
\* the answer is an error (return reject(err) comes first), else the token
\* is cached with expiresAt computed at the time of the answer
storeTokens(tokens, call, err, clock) ==
  IF err # NoError THEN tokens
  ELSE addAccessToken(tokens, call.authResult.accessToken,
                      ExpiresAt(call.authResult, clock), call.audience)

\* Object.keys(_subscribers) in iteration order: the keys are timestamps,
\* inserted in clock order, so the order is ascending
RECURSIVE SortedKeys(_)
SortedKeys(S) ==
  IF S = {} THEN << >>
  ELSE LET m == CHOOSE x \in S : \A y \in S : x <= y
       IN <<m>> \o SortedKeys(S \ {m})

\* InvokedPrefix as it would be if each callback ran in its own try block
RECURSIVE InvokedPrefix_isolated(_, _)
InvokedPrefix_isolated(subs, keys) ==
  IF keys = << >> THEN << >>
  ELSE <<subs[Head(keys)]>> \o InvokedPrefix_isolated(subs, Tail(keys))

\* the callbacks notifySubscribers invokes, in order: forEach stops at the
\* first callback that throws (the exception leaves the loop)
RECURSIVE InvokedPrefix(_, _)
InvokedPrefix(subs, keys) ==
  IF keys = << >> THEN << >>
  ELSE IF subs[Head(keys)] \in ThrowingCallbacks THEN <<subs[Head(keys)]>>
       ELSE <<subs[Head(keys)]>> \o InvokedPrefix(subs, Tail(keys))

notifySubscribers(subs) == InvokedPrefix(subs, SortedKeys(DOMAIN subs))

\* TRUE when notifySubscribers ends with an exception
NotifyThrows(subs) == \E k \in DOMAIN subs : subs[k] \in ThrowingCallbacks

\* clearSession as it would be if it removed the default entry only
clearSession_defaultOnly(tokens) == Remove(tokens, DEFAULT_KEY)

\* the token cache after clearSession
clearSession(tokens) == EmptyMap

(* ---------------------------- promises --------------------------------- *)
\* a call in flight.  pc is the SDK callback the call is waiting for ("sdk":
\* parseHash / checkSession, "userInfo"), or "await" when loadProfile's
\* promise is settled and the continuation sits in the microtask queue
NoCall ==
  [kind |-> "none", audience |-> Undefined, pc |-> "idle", authResult |-> NoResult,
   sdkCalls |-> 0, loaded |-> "pending", loadedValue |-> Undefined]

NewCall(kind, audience) ==
  [NoCall EXCEPT !.kind = kind, !.audience = audience, !.pc = "sdk", !.sdkCalls = 1]

\* loadProfile's promise executor: issue the userInfo request
loadProfileStart(call, authResult) ==
  [call EXCEPT !.authResult = authResult, !.pc = "userInfo",
               !.sdkCalls = call.sdkCalls + 1]

\* checkSessionBranch as it would be if login_required were treated like any
\* other error
checkSessionBranch_noLoginRequired(error, authenticated) ==
  IF error # NoError THEN "reject"
  ELSE IF authenticated THEN "cache"
  ELSE "load"

\* which way the checkSession callback goes, given the provider's error and
\* whether a default entry exists when it runs
checkSessionBranch(error, authenticated) ==
  IF error # NoError /\ error # "login_required" THEN "reject"
  ELSE IF error # NoError THEN "resolveFalse"
  ELSE IF authenticated THEN "cache"
  ELSE "load"

\* awaitSettlement as it would be if the catch block swallowed the error
awaitSettlement_swallow(call) ==
  IF call.loaded = "rejected"
  THEN [outcome |-> "resolved", value |-> "false"]
  ELSE IF call.kind = "parseHash"
  THEN [outcome |-> "resolved", value |-> call.loadedValue]
  ELSE [outcome |-> "resolved", value |-> "true"]

\* how the code after the await settles the promise the caller holds
awaitSettlement(call) ==
  IF call.loaded = "rejected"
  THEN [outcome |-> "rejected", value |-> call.loadedValue]  \* catch (err) { reject(err) }
  ELSE IF call.kind = "parseHash"
  THEN [outcome |-> "resolved", value |-> call.loadedValue]  \* resolve(await loadProfile(..))
  ELSE [outcome |-> "resolved", value |-> "true"]            \* resolve(true)

InFlight == BagCardinality(calls) + Len(microtasks)
One(call) == SetToBag({call})

\* the session fields a subscriber can read through the getters
Session(tokens, id, prof) == [tokens |-> tokens, idToken |-> id, profile |-> prof]

NoSession == Session(EmptyMap, Undefined, Undefined)

\* loadProfileNotifyView as it would be if loadProfile notified before storing
loadProfileNotifyView_beforeStore(before, after) == before

\* the session the subscribers read while loadProfile notifies them:
\* notifySubscribers(true) is the statement after the three stores
loadProfileNotifyView(before, after) == after

\* the session the subscribers read while clearSession notifies them:
\* notifySubscribers(false) is the statement after the three deletions
clearSessionNotifyView(before, after) == after

\* no notification in this step
NoNotify == [authenticated |-> "none", invoked |-> << >>, seen |-> NoSession]

\* what a step did: the operation, the call it belongs to, the error the
\* provider delivered, how the call's promise was settled in this step
\* (outcome "pending": not settled in this step), the notification sent,
\* the redirect asked of the SDK, and the cache keys a signOut removed
Step(op, call, err, outcome, value, notify, redirect) ==
  [op |-> op, kind |-> call.kind, audience |-> call.audience,
   authResult |-> call.authResult, sdkCalls |-> call.sdkCalls,
   err |-> err, outcome |-> outcome, value |-> value,
   notify |-> notify, redirect |-> redirect, cleared |-> {}]

Plain(op) == Step(op, NoCall, NoError, "pending", Undefined, NoNotify, "none")

(* ---------------------------- initial state ---------------------------- *)
Init ==
  /\ accessTokens = EmptyMap
  /\ idToken = Undefined
  /\ profile = Undefined
  /\ subscribers = EmptyMap
  /\ now = 0
  /\ locationHash = "#access_token"
  /\ calls = EmptyBag
  /\ microtasks = << >>
  /\ last = Plain("init")

(* ---------------------------- actions ---------------------------------- *)
\* the clock advances between macrotasks
Tick ==
  /\ microtasks = << >>
  /\ now < MaxClock
  /\ now' = now + 1
  /\ last' = Plain("tick")
  /\ UNCHANGED <<accessTokens, idToken, profile, subscribers, locationHash,
                 calls, microtasks>>

\* signIn: authorize() redirects to the hosted login page
signIn ==
  /\ microtasks = << >>
  /\ last' = Step("signIn", NoCall, NoError, "pending", Undefined, NoNotify, "authorize")
  /\ UNCHANGED <<accessTokens, idToken, profile, subscribers, now, locationHash,
                 calls, microtasks>>

\* signOut: clearSession (which notifies with false), then logout; when a
\* subscriber throws, the exception leaves signOut before logout is called
signOut ==
  /\ microtasks = << >>
  /\ profile' = Undefined
  /\ accessTokens' = clearSession(accessTokens)
  /\ idToken' = Undefined
  /\ last' = [Step("signOut", NoCall, NoError, "pending", Undefined,
                   [authenticated |-> "false",
                    invoked |-> notifySubscribers(subscribers),
                    seen |-> clearSessionNotifyView(
                               Session(accessTokens, idToken, profile),
                               Session(accessTokens', idToken', profile'))],
                   IF NotifyThrows(subscribers) THEN "none" ELSE "logout")
               EXCEPT !.cleared = DOMAIN accessTokens]
  /\ UNCHANGED <<subscribers, now, locationHash, calls, microtasks>>

\* parseHash(): the promise executor calls the SDK's parseHash
parseHash ==
  /\ microtasks = << >>
  /\ InFlight < MaxCalls
  /\ calls' = calls (+) One(NewCall("parseHash", Undefined))
  /\ last' = Step("parseHash", NewCall("parseHash", Undefined), NoError,
                  "pending", Undefined, NoNotify, "none")
  /\ UNCHANGED <<accessTokens, idToken, profile, subscribers, now, locationHash,
                 microtasks>>

\* checkSession(audience): the promise executor calls the SDK's checkSession
checkSession(audience) ==
  /\ microtasks = << >>
  /\ InFlight < MaxCalls
  /\ calls' = calls (+) One(NewCall("checkSession", audience))
  /\ last' = Step("checkSession", NewCall("checkSession", audience), NoError,
                  "pending", Undefined, NoNotify, "none")
  /\ UNCHANGED <<accessTokens, idToken, profile, subscribers, now, locationHash,
                 microtasks>>

\* the callback handed to the SDK's parseHash
parseHashCallback(call, err, authResult) ==
  /\ microtasks = << >>
  /\ BagIn(call, calls)
  /\ call.kind = "parseHash" /\ call.pc = "sdk"
  /\ IF err # NoError
     THEN \* return reject(err)
          /\ calls' = calls (-) One(call)
          /\ last' = Step("parseHashCallback", call, err, "rejected", err,
                          NoNotify, "none")
          /\ UNCHANGED locationHash
     ELSE /\ locationHash' = ""
          /\ calls' = (calls (-) One(call)) (+) One(loadProfileStart(call, authResult))
          /\ last' = Step("parseHashCallback", loadProfileStart(call, authResult),
                          err, "pending", Undefined, NoNotify, "none")
  /\ UNCHANGED <<accessTokens, idToken, profile, subscribers, now,
                 microtasks>>

\* the callback handed to the SDK's checkSession
checkSessionCallback(call, error, authResult) ==
  /\ microtasks = << >>
  /\ BagIn(call, calls)
  /\ call.kind = "checkSession" /\ call.pc = "sdk"
  /\ IF checkSessionBranch(error, isAuthenticated(Undefined)) = "reject"
     THEN \* some other error: return reject(error)
          /\ calls' = calls (-) One(call)
          /\ last' = Step("checkSessionCallback", call, error, "rejected", error,
                          NoNotify, "none")
          /\ UNCHANGED <<accessTokens, locationHash>>
     ELSE IF checkSessionBranch(error, isAuthenticated(Undefined)) = "resolveFalse"
     THEN \* explicit authentication required: return resolve(false)
          /\ calls' = calls (-) One(call)
          /\ last' = Step("checkSessionCallback", call, error, "resolved", "false",
                          NoNotify, "none")
          /\ UNCHANGED <<accessTokens, locationHash>>
     ELSE IF checkSessionBranch(error, isAuthenticated(Undefined)) = "cache"
     THEN \* already authenticated: cache the token, return resolve(true)
          /\ accessTokens' = addAccessToken(accessTokens, authResult.accessToken,
                                            ExpiresAt(authResult, now),
                                            call.audience)
          /\ calls' = calls (-) One(call)
          /\ last' = Step("checkSessionCallback",
                          [call EXCEPT !.authResult = authResult],
                          error, "resolved", "true", NoNotify, "none")
          /\ UNCHANGED locationHash
     ELSE \* handleAuthResult: clear the fragment, then loadProfile
          /\ locationHash' = ""
          /\ calls' = (calls (-) One(call)) (+) One(loadProfileStart(call, authResult))
          /\ last' = Step("checkSessionCallback", loadProfileStart(call, authResult),
                          error, "pending", Undefined, NoNotify, "none")
          /\ UNCHANGED accessTokens
  /\ UNCHANGED <<idToken, profile, subscribers, now, microtasks>>

\* the callback loadProfile hands to the SDK's userInfo
userInfoCallback(call, err) ==
  /\ microtasks = << >>
  /\ BagIn(call, calls)
  /\ call.pc = "userInfo"
  /\ accessTokens' = storeTokens(accessTokens, call, err, now)
  /\ IF err # NoError
     THEN \* return reject(err): loadProfile's promise is rejected
          /\ calls' = calls (-) One(call)
          /\ microtasks' = Append(microtasks,
                                  [call EXCEPT !.loaded = "rejected",
                                               !.loadedValue = err, !.pc = "await"])
          /\ last' = Step("userInfoCallback", call, err, "pending", Undefined,
                          NoNotify, "none")
          /\ UNCHANGED <<idToken, profile>>
     ELSE /\ idToken' = call.authResult.idToken
          /\ profile' = UserInfoProfile(call.authResult.accessToken)
          /\ last' = Step("userInfoCallback", call, err, "pending", Undefined,
                          [authenticated |-> "true",
                           invoked |-> notifySubscribers(subscribers),
                           seen |-> loadProfileNotifyView(
                                      Session(accessTokens, idToken, profile),
                                      Session(accessTokens', idToken', profile'))],
                          "none")
          /\ calls' = calls (-) One(call)
          /\ IF NotifyThrows(subscribers)
             THEN \* the exception leaves the callback before resolve():
                  \* neither promise of this call is ever settled
                  UNCHANGED microtasks
             ELSE \* resolve(): loadProfile's promise is fulfilled with no value
                  microtasks' = Append(microtasks,
                                       [call EXCEPT !.loaded = "resolved",
                                                    !.loadedValue = Undefined,
                                                    !.pc = "await"])
  /\ UNCHANGED <<subscribers, now, locationHash>>

\* the code after `await this.loadProfile(...)` / `await this.handleAuthResult(...)`
awaitContinuation ==
  /\ microtasks # << >>
  /\ LET call == Head(microtasks)
     IN last' = Step("awaitContinuation", call, NoError,
                     awaitSettlement(call).outcome, awaitSettlement(call).value,
                     NoNotify, "none")
  /\ microtasks' = Tail(microtasks)
  /\ UNCHANGED <<accessTokens, idToken, profile, subscribers, now, locationHash,
                 calls>>

\* subscribe(subscriber): key the registration by Date.now() and return the
\* closure that deletes that key
subscribe(subscriber) ==
  /\ microtasks = << >>
  /\ LET subscriberKey == now
     IN subscribers' = Put(subscribers, subscriberKey, subscriber)
  /\ last' = Plain("subscribe")
  /\ UNCHANGED <<accessTokens, idToken, profile, now, locationHash, calls,
                 microtasks>>

\* a closure subscribe returned: delete this._subscribers[subscriberKey].
\* A key that is registered was handed to subscribe's caller in a closure;
\* invoking a closure whose key is no longer registered changes nothing.
unsubscribe(subscriberKey) ==
  /\ microtasks = << >>
  /\ subscriberKey \in DOMAIN subscribers
  /\ subscribers' = Remove(subscribers, subscriberKey)
  /\ last' = Plain("unsubscribe")
  /\ UNCHANGED <<accessTokens, idToken, profile, now, locationHash, calls,
                 microtasks>>

Next ==
  \/ Tick
  \/ signIn
  \/ signOut
  \/ parseHash
  \/ \E a \in Audiences : checkSession(a)
  \/ \E call \in BagToSet(calls), err \in Errors \cup {NoError}, r \in AuthResults :
       parseHashCallback(call, err, IF err = NoError THEN r ELSE NoResult)
  \/ \E call \in BagToSet(calls), err \in Errors \cup {NoError}, r \in AuthResults :
       checkSessionCallback(call, err, IF err = NoError THEN r ELSE NoResult)
  \/ \E call \in BagToSet(calls), err \in Errors \cup {NoError} :
       userInfoCallback(call, err)
  \/ awaitContinuation
  \/ \E s \in Callbacks : subscribe(s)
  \/ \E k \in DOMAIN subscribers : unsubscribe(k)

Spec == Init /\ [][Next]_vars

(* ======================================================================= *)
(* Properties                                                              *)
(* ======================================================================= *)

\* the step just taken resolved a checkSession promise with true
ResolvedTrue ==
  last.outcome = "resolved" /\ last.kind = "checkSession" /\ last.value = "true"

\* the step just taken resolved a parseHash promise
ResolvedParseHash ==
  last.outcome = "resolved" /\ last.kind = "parseHash"

\* C1: at the moment a checkSession(a) promise resolves true, and for the
\* default audience at the moment a parseHash() promise resolves,
\* isAuthenticated(a) is true and getAccessToken(a) returns the access token
\* of the entry cached for a (for a named audience: the token just delivered).
C1_AuthenticatedOnSuccess ==
  (ResolvedTrue \/ ResolvedParseHash) =>
     /\ isAuthenticated(last.audience)
     /\ getAccessToken(last.audience) # Undefined
     /\ getAccessToken(last.audience) = accessTokens[KeyOf(last.audience)].accessToken
     /\ Truthy(last.audience) => getAccessToken(last.audience) = last.authResult.accessToken

C1_Witness ==
  /\ ResolvedTrue
  /\ last.audience = "urn:api"
  /\ getAccessToken("urn:api") = last.authResult.accessToken

C3_DefaultSlotInvariant ==
  (\E k \in DOMAIN accessTokens : k # DEFAULT_KEY) => DEFAULT_KEY \in DOMAIN accessTokens

C3_Witness ==
  /\ "urn:api" \in DOMAIN accessTokens
  /\ DEFAULT_KEY \in DOMAIN accessTokens
  /\ accessTokens["urn:api"] # accessTokens[DEFAULT_KEY]

\* C4: once a default entry exists, no step other than signOut changes its
\* accessToken or expiresAt or removes it.
C4_DefaultNeverOverwritten ==
  [][(DEFAULT_KEY \in DOMAIN accessTokens /\ last'.op # "signOut") =>
        /\ DEFAULT_KEY \in DOMAIN accessTokens'
        /\ accessTokens'[DEFAULT_KEY] = accessTokens[DEFAULT_KEY]]_vars

\* C5: every subscribe call registers its callback under a key of its own:
\* it adds one registration and leaves every other registration as it was.
C5_SubscribeKeyIsUnique ==
  [][last'.op = "subscribe" =>
        /\ Cardinality(DOMAIN subscribers') = Cardinality(DOMAIN subscribers) + 1
        /\ \A k \in DOMAIN subscribers :
             k \in DOMAIN subscribers' /\ subscribers'[k] = subscribers[k]]_vars

\* C6: a login_required answer to checkSession resolves the promise with
\* false (it does not reject) and leaves isAuthenticated(a) unchanged for
\* every audience a.
C6_LoginRequiredResolvesFalse ==
  [][(last'.op = "checkSessionCallback" /\ last'.err = "login_required") =>
        /\ last'.outcome = "resolved"
        /\ last'.value = "false"
        /\ \A a \in Audiences :
             (KeyOf(a) \in DOMAIN accessTokens') = (KeyOf(a) \in DOMAIN accessTokens)
        /\ accessTokens' = accessTokens]_vars

C6_Witness ==
  /\ last.op = "checkSessionCallback"
  /\ last.err = "login_required"
  /\ last.outcome = "resolved"
  /\ last.value = "false"

\* a provider error other than login_required
OtherError(err) == err # NoError /\ err # "login_required"

\* C7: a provider error other than login_required, delivered to the
\* parseHash, checkSession or userInfo callback, rejects the caller's promise
\* with that same error value: at once for parseHash and checkSession, in the
\* continuation of the await for userInfo; the call is then over (no further
\* SDK call is issued for it).
C7_ErrorsRejectUnchanged ==
  [][/\ (OtherError(last'.err) /\ last'.op \in {"parseHashCallback", "checkSessionCallback"}) =>
          /\ last'.outcome = "rejected"
          /\ last'.value = last'.err
          /\ last'.sdkCalls = 1
          /\ InFlight' = InFlight - 1
     /\ (OtherError(last'.err) /\ last'.op = "userInfoCallback") =>
          /\ Len(microtasks') = 1
          /\ microtasks'[1].loaded = "rejected"
          /\ microtasks'[1].loadedValue = last'.err
          /\ BagCardinality(calls') = BagCardinality(calls) - 1
     /\ (last'.op = "awaitContinuation" /\ Head(microtasks).loaded = "rejected") =>
          /\ last'.outcome = "rejected"
          /\ last'.value = Head(microtasks).loadedValue
          /\ last'.sdkCalls = 2
          /\ calls' = calls
          /\ InFlight' = InFlight - 1]_vars

C7_Witness ==
  /\ last.op = "awaitContinuation"
  /\ last.outcome = "rejected"
  /\ last.value = "unauthorized"

\* C8: when the fragment parse and the profile load succeed, the parseHash
\* promise resolves with the profile that getProfile() returns.
C8_ParseHashResolvesWithProfile ==
  ResolvedParseHash => (last.value = getProfile /\ last.value # Undefined)

\* the step just taken was a successful provider answer to checkSession that
\* found a default entry (the short-circuit of checkSession); in an action
\* formula, about the step from the unprimed to the primed state
ShortCircuitStep ==
  /\ last'.op = "checkSessionCallback"
  /\ last'.err = NoError
  /\ DEFAULT_KEY \in DOMAIN accessTokens

\* the entry the short-circuit computes: the result's accessToken with
\* expiresAt = response time + expiresIn * 1000
FreshEntry ==
  [accessToken |-> last'.authResult.accessToken,
   expiresAt |-> now + last'.authResult.expiresIn * 1000]

\* no userInfo call, profile and identity token untouched, resolves true
ShortCircuitFrame ==
  /\ last'.sdkCalls = 1
  /\ InFlight' = InFlight - 1
  /\ microtasks' = << >>
  /\ profile' = profile
  /\ idToken' = idToken
  /\ last'.notify = NoNotify
  /\ last'.outcome = "resolved"
  /\ last'.value = "true"

\* C9 as stated: on the short-circuit, for every audience argument (named or
\* omitted), no userInfo call is issued, getProfile() is unchanged, the new
\* token is cached for the audience so that getAccessToken(a) returns it, and
\* the promise resolves true.
C9_ShortCircuitCachesForEveryAudience ==
  [][ShortCircuitStep =>
        /\ ShortCircuitFrame
        /\ KeyOf(last'.audience) \in DOMAIN accessTokens'
        /\ accessTokens'[KeyOf(last'.audience)] = FreshEntry]_vars

\* C9 as amended: on the short-circuit no userInfo call is issued,
\* getProfile() is unchanged and the promise resolves true; for a named
\* audience the new token is cached for it with expiresAt = response time +
\* expiresIn * 1000 and every other entry is kept; for an omitted audience
\* the token cache is left as it was.
C9_ShortCircuitCachesForNamedAudience ==
  [][ShortCircuitStep =>
        /\ ShortCircuitFrame
        /\ IF Truthy(last'.audience)
           THEN /\ DOMAIN accessTokens' = DOMAIN accessTokens \cup {last'.audience}
                /\ accessTokens'[last'.audience] = FreshEntry
                /\ \A k \in DOMAIN accessTokens \ {last'.audience} :
                     accessTokens'[k] = accessTokens[k]
           ELSE accessTokens' = accessTokens]_vars

C9_Witness ==
  /\ last.op = "checkSessionCallback"
  /\ last.err = NoError
  /\ last.outcome = "resolved"
  /\ last.audience = "urn:api"
  /\ getAccessToken("urn:api") = last.authResult.accessToken
  /\ getAccessToken(Undefined) # last.authResult.accessToken
  /\ getProfile # UserInfoProfile(last.authResult.accessToken)

\* the step just taken resolved a checkSession(a) promise, a named, after the
\* profile load (the provider's answer found no default entry)
ResolvedAfterLoad ==
  /\ last.op = "awaitContinuation"
  /\ last.kind = "checkSession"
  /\ last.outcome = "resolved"
  /\ Truthy(last.audience)

LoadStep ==
  /\ last'.op = "userInfoCallback"
  /\ last'.err = NoError
  /\ last'.kind = "checkSession"
  /\ Truthy(last'.audience)

RejectingStep ==
  \/ last'.outcome = "rejected"
  \/ last'.op = "userInfoCallback" /\ last'.err # NoError

\* C12: every rejected outcome leaves the session untouched: the step that
\* rejects a parseHash or checkSession promise, and the userInfo error that
\* leads to it, change neither the token cache, the identity token, the
\* profile nor the subscriber registry, and notify no subscriber; a promise
\* is rejected in the continuation only after such a userInfo error.
C12_RejectionLeavesSessionUntouched ==
  [][/\ RejectingStep =>
          /\ accessTokens' = accessTokens
          /\ idToken' = idToken
          /\ profile' = profile
          /\ subscribers' = subscribers
          /\ last'.notify.authenticated = "none"
          /\ last'.notify.invoked = << >>
     /\ (last'.op = "awaitContinuation" /\ last'.outcome = "rejected") =>
          Head(microtasks).loaded = "rejected"]_vars

C12_Witness ==
  /\ last.op = "awaitContinuation"
  /\ last.outcome = "rejected"
  /\ last.kind = "parseHash"
  /\ getAccessToken(Undefined) = "tok2"
  /\ getProfile = "profile2"
  /\ subscribers # EmptyMap

\* C13: with every SDK callback invoked exactly once, every parseHash and
\* checkSession promise settles, whatever the provider answers and whatever
\* subscribers are registered: a call is over (no SDK callback and no
\* continuation of it is outstanding any more) only by the step that
\* resolves or rejects its promise.
C13_EveryPromiseSettles ==
  [][InFlight' < InFlight => last'.outcome \in {"resolved", "rejected"}]_vars

\* the step just taken was a successful userInfo answer: loadProfile wrote
\* the shared state (action formula)
WriterStep == last'.op = "userInfoCallback" /\ last'.err = NoError

\* the entry the writer of this step computes
WrittenEntry ==
  [accessToken |-> last'.authResult.accessToken,
   expiresAt |-> now + last'.authResult.expiresIn * 1000]

\* C14 as stated: when two flows overlap, the flow whose userInfo callback
\* runs last leaves its values in every field it writes, the default slot
\* included.  A checkSession call reaches userInfo only if no default entry
\* existed when the provider answered, so whatever default entry it finds at
\* the userInfo answer was written by a flow that overlapped it.
C14_LastWriterWinsEverywhere ==
  [][(WriterStep /\ last'.kind = "checkSession") =>
        /\ accessTokens'[DEFAULT_KEY] = WrittenEntry
        /\ Truthy(last'.audience) => accessTokens'[last'.audience] = WrittenEntry
        /\ idToken' = last'.authResult.idToken
        /\ profile' = UserInfoProfile(last'.authResult.accessToken)]_vars

\* C14 as amended: every flow that completes its profile load overwrites the
\* profile, the identity token and the slot of its named audience (last
\* writer wins); the default slot is written only while it is absent, so an
\* existing default entry stays as the first writer left it (unless the
\* audience argument is the text of DEFAULT_KEY); no other entry is touched.
C14_LastWriterWinsExceptDefault ==
  [][WriterStep =>
        /\ idToken' = last'.authResult.idToken
        /\ profile' = UserInfoProfile(last'.authResult.accessToken)
        /\ DOMAIN accessTokens' =
             DOMAIN accessTokens \cup {DEFAULT_KEY, KeyOf(last'.audience)}
        /\ Truthy(last'.audience) => accessTokens'[last'.audience] = WrittenEntry
        /\ DEFAULT_KEY \notin DOMAIN accessTokens =>
             accessTokens'[DEFAULT_KEY] = WrittenEntry
        /\ \A k \in DOMAIN accessTokens :
             (k # last'.audience) => accessTokens'[k] = accessTokens[k]]_vars

C14_Witness ==
  /\ last.op = "userInfoCallback"
  /\ last.err = NoError
  /\ last.kind = "checkSession"
  /\ last.audience = "urn:api"
  /\ getAccessToken("urn:api") = last.authResult.accessToken
  /\ getAccessToken(Undefined) # last.authResult.accessToken
  /\ idToken = last.authResult.idToken
  /\ getProfile = UserInfoProfile(last.authResult.accessToken)

\* C15: state is updated before anyone is told, and the redirect comes last.
\* Subscribers invoked with true read a session that already holds this
\* flow's token entry, identity token and profile; subscribers invoked with
\* false read a session already cleared; and logout is asked of the provider
\* only by a signOut step that has cleared the session and invoked every
\* registered subscriber.
C15_StateBeforeNotifyBeforeRedirect ==
  /\ last.notify.authenticated = "true" =>
       /\ DEFAULT_KEY \in DOMAIN last.notify.seen.tokens
       /\ KeyOf(last.audience) \in DOMAIN last.notify.seen.tokens
       /\ last.notify.seen.idToken = last.authResult.idToken
       /\ last.notify.seen.profile = UserInfoProfile(last.authResult.accessToken)
  /\ last.notify.authenticated = "false" => last.notify.seen = NoSession
  /\ last.redirect = "logout" =>
       /\ last.op = "signOut"
       /\ Session(accessTokens, idToken, profile) = NoSession
       /\ last.notify.authenticated = "false"
       /\ Len(last.notify.invoked) = Cardinality(DOMAIN subscribers)

C15_Witness ==
  /\ last.op = "userInfoCallback"
  /\ last.notify.authenticated = "true"
  /\ last.notify.invoked = <<"cbA">>
  /\ last.notify.seen.profile = "profile1"
  /\ last.notify.seen.idToken = "id1"
  /\ DEFAULT_KEY \in DOMAIN last.notify.seen.tokens

\* C16: authentication-state changes are fanned out.  Whenever a step
\* changes isAuthenticated(a) for some audience a, every subscriber
\* registered at that moment is invoked once with the new value.
C16_EveryChangeIsFannedOut ==
  [][\A a \in Audiences :
       (isAuthenticated(a)' # isAuthenticated(a)) =>
         /\ last'.notify.authenticated = (IF isAuthenticated(a)' THEN "true" ELSE "false")
         /\ Len(last'.notify.invoked) = Cardinality(DOMAIN subscribers)]_vars

\* the step just taken notified while a registered subscriber throws
\* (action formula)
ThrowingNotification ==
  /\ last'.notify.authenticated # "none"
  /\ NotifyThrows(subscribers)

\* C17: a throwing subscriber is not isolated.  The subscribers invoked are
\* those up to and including the first one that throws, in key order, and
\* none after it; the exception leaves the notifying operation after its
\* state change: signOut has cleared the session and does not reach logout,
\* loadProfile has stored token, identity token and profile and never
\* resolves (no continuation is queued and the call is no longer in flight).
C17_ThrowingSubscriberNotIsolated ==
  [][ThrowingNotification =>
        LET keys == SortedKeys(DOMAIN subscribers)
            first == CHOOSE n \in 1..Len(keys) :
                       /\ subscribers[keys[n]] \in ThrowingCallbacks
                       /\ \A i \in 1..(n - 1) : subscribers[keys[i]] \notin ThrowingCallbacks
        IN /\ last'.notify.invoked = [i \in 1..first |-> subscribers[keys[i]]]
           /\ last'.op = "signOut" =>
                /\ Session(accessTokens', idToken', profile') = NoSession
                /\ last'.redirect = "none"
           /\ last'.op = "userInfoCallback" =>
                /\ DEFAULT_KEY \in DOMAIN accessTokens'
                /\ KeyOf(last'.audience) \in DOMAIN accessTokens'
                /\ idToken' = last'.authResult.idToken
                /\ profile' = UserInfoProfile(last'.authResult.accessToken)
                /\ last'.outcome = "pending"
                /\ microtasks' = << >>
                /\ InFlight' = InFlight - 1]_vars

C17_Witness ==
  /\ last.op = "signOut"
  /\ last.cleared # {}
  /\ Cardinality(DOMAIN subscribers) = 2
  /\ last.notify.invoked = <<"cbThrow">>
  /\ last.redirect = "none"
  /\ Session(accessTokens, idToken, profile) = NoSession

\* C18: in every reachable state a default token entry exists if and only
\* if a profile is held, and if and only if an identity token is stored.
C18_SessionFieldsTogether ==
  /\ (DEFAULT_KEY \in DOMAIN accessTokens) <=> (profile # Undefined)
  /\ (DEFAULT_KEY \in DOMAIN accessTokens) <=> (idToken # Undefined)
  /\ (accessTokens # EmptyMap) => (DEFAULT_KEY \in DOMAIN accessTokens)

C18_Witness ==
  /\ DOMAIN accessTokens = {DEFAULT_KEY, "urn:api"}
  /\ profile = "profile2"
  /\ idToken = "id2"
  /\ accessTokens["urn:api"].accessToken = "tok1"
  /\ last.op = "checkSessionCallback"
  /\ last.outcome = "resolved"

\* C19: in every reachable state in which a profile is held, the default
\* slot's access token, the stored identity token and the profile all come
\* from one authentication result: the profile is the one userInfo returns
\* for the token the default slot holds.
C19_SessionFromOneResult ==
  (profile # Undefined) =>
    \E r \in AuthResults :
      /\ getAccessToken(Undefined) = r.accessToken
      /\ idToken = r.idToken
      /\ getProfile = UserInfoProfile(r.accessToken)

\* the step just taken is an SDK callback that answers a call started
\* before the signOut of the previous step (action formula): no call can
\* start between two consecutive steps
StaleAnswerAfterSignOut ==
  /\ last.op = "signOut"
  /\ last'.op \in {"parseHashCallback", "checkSessionCallback", "userInfoCallback"}

\* C20: sign-out is final.  An answer that belongs to a call started before
\* the signOut repopulates neither the token cache nor the identity token
\* nor the profile, and does not notify subscribers with true.
C20_SignOutIsFinal ==
  [][StaleAnswerAfterSignOut =>
        /\ Session(accessTokens', idToken', profile') = NoSession
        /\ \A a \in Audiences : ~isAuthenticated(a)'
        /\ last'.notify.authenticated # "true"]_vars

====
